---------------------------- MODULE Spec2Model ----------------------------
(***************************************************************************)
(* pyswd: the ST-Link/V2 driver (src/swd/stlink.py) and the SWD memory     *)
(* transfer planner (src/swd/swd.py) as one state machine.                 *)
(*                                                                         *)
(* A behaviour is the construction of one Stlink over a recording          *)
(* transport (Stlink.__init__), followed by one call of Swd.read_mem,      *)
(* Swd.write_mem or Swd.fill_mem on the opened driver.  Two logs are kept: *)
(*   prims : the calls the planner makes on the driver, as made            *)
(*           (what the @_log.log decorators of stlink.py see);             *)
(*   xfers : the calls the driver makes on the transport (com.xfer).       *)
(***************************************************************************)
EXTENDS Integers, Sequences, FiniteSets, TLC

VARIABLES
    pc,             \* position of the running call
    ver_reply,      \* transport's reply to the version query (6 bytes)
    mode_reply,     \* transport's reply to the mode query (2 bytes)
    freq_reply,     \* transport's reply to the set-frequency command (2 bytes)
    fail_at,        \* k > 0: the transport raises in the k-th bulk memory command
                    \* of the call; 0: every transport call returns
    want,           \* the number of next() calls read_mem's consumer will make
    asked,          \* the number of next() calls it has made on the generator
    swd_frequency,  \* Stlink.__init__ argument
    version,        \* self._version (StlinkVersion) or NoVersion
    op,             \* the Swd method called: "none", "read_mem", ...
    arg_address,    \* its address argument
    arg_size,       \* its size argument (read_mem, fill_mem)
    arg_data,       \* its data (write_mem) or pattern (fill_mem) argument
    address,        \* local: address
    size,           \* local: size
    data,           \* local: the data iterator's rest (write_mem), the buffer (fill_mem)
    index,          \* local: index (fill_mem)
    out,            \* bytes read_mem has yielded so far
    prims,          \* driver calls made by the planner, in order
    xfers,          \* transport calls made by the driver, in order
    err             \* "none", or the exception that ended the call

vars == <<pc, ver_reply, mode_reply, freq_reply, fail_at, want, asked, swd_frequency, version, op,
          arg_address, arg_size, arg_data, address, size, data, index, out,
          prims, xfers, err>>

(***************************************************************************)
(* Bounds of the exploration.                                              *)
(***************************************************************************)
MaxAddrOffset == 3      \* addresses are BaseAddress + 0..MaxAddrOffset
MaxSmallSize == 70      \* sizes 0..MaxSmallSize, and ...
MaxOver == 4            \* ... MAXIMUM_32BIT_DATA - MaxOver .. MAXIMUM_32BIT_DATA + MaxOver
MaxPatternLen == 5      \* fill patterns of 0..MaxPatternLen bytes
MaxModeByte == 5        \* first byte of the mode reply: 0..MaxModeByte
MaxFailAt == 3          \* the transport fails in bulk memory command 1..MaxFailAt, or never
MaxWant == 4            \* read_mem's consumer stops after 0..MaxWant bytes, or takes all
                        \* but 0..MaxWant-1 bytes, or iterates to the end

BaseAddress == 2^29     \* 0x20000000

Addresses == {BaseAddress + o : o \in 0..MaxAddrOffset}

(***************************************************************************)
(* Program constants.                                                      *)
(***************************************************************************)
_STLINK_MAXIMUM_TRANSFER_SIZE == 1024
_STLINK_MAXIMUM_8BIT_DATA == 64
MAXIMUM_8BIT_DATA == 4
MAXIMUM_32BIT_DATA == _STLINK_MAXIMUM_TRANSFER_SIZE

Sizes == (0..MaxSmallSize) \cup
         {MAXIMUM_32BIT_DATA + d : d \in (0 - MaxOver)..MaxOver}

\* Stlink._Cmd
GET_VERSION == 241          \* 0xf1
GET_CURRENT_MODE == 245     \* 0xf5
Mode_DFU == 0
Mode_MASS == 1
Mode_DEBUG == 2
Mode_SWIM == 3
Mode_BOOTLOADER == 4
Dfu_COMMAND == 243          \* 0xf3
Dfu_EXIT == 7
Swim_COMMAND == 244         \* 0xf4
Swim_EXIT == 1
Debug_COMMAND == 242        \* 0xf2
Debug_ENTER_JTAG == 0
Debug_READMEM_32BIT == 7
Debug_WRITEMEM_32BIT == 8
Debug_READMEM_8BIT == 12    \* 0x0c
Debug_WRITEMEM_8BIT == 13   \* 0x0d
Debug_EXIT == 33            \* 0x21
Debug_ENTER_SWD == 163      \* 0xa3
Apiv2_ENTER == 48           \* 0x30
Apiv2_WRITEDEBUGREG == 53   \* 0x35
Apiv2_READDEBUGREG == 54    \* 0x36
Apiv2_SWD_SET_FREQ == 67    \* 0x43

\* Stlink._SWD_FREQ
_SWD_FREQ == << <<4000000, 0>>, <<1800000, 1>>, <<1200000, 2>>, <<950000, 3>>,
                <<480000, 7>>, <<240000, 15>>, <<125000, 31>>, <<100000, 40>>,
                <<50000, 79>>, <<25000, 158>> >>

(***************************************************************************)
(* Python helpers.                                                         *)
(***************************************************************************)
Min(a, b) == IF a <= b THEN a ELSE b

\* s[i:j] for 0 <= i <= j: the slice is cut at the end of s
Slice(s, i, j) == SubSeq(s, i + 1, Min(j, Len(s)))

\* list(itertools.islice(it, 0, n)) and the iterator it leaves behind
islice(it, n) == SubSeq(it, 1, Min(n, Len(it)))
islice_rest(it, n) == SubSeq(it, Min(n, Len(it)) + 1, Len(it))

\* pattern * n
Repeat(pattern, n) == [i \in 1..(Len(pattern) * n) |-> pattern[((i - 1) % Len(pattern)) + 1]]

\* n.to_bytes(4, byteorder='little')
to_bytes_le4(n) == << n % 256, (n \div 256) % 256, (n \div 65536) % 256,
                      (n \div 16777216) % 256 >>

\* int.from_bytes(b, byteorder='big') of two bytes
from_bytes_be2(b) == b[1] * 256 + b[2]

NoVersion == [stlink |-> -1, jtag |-> -1, api |-> -1]

\* Stlink.StlinkVersion.__init__: the fields decoded from the version word
StlinkVersion(ver) ==
    LET jtag == (ver \div 64) % 64
    IN [stlink |-> (ver \div 4096) % 16,
        jtag |-> jtag,
        api |-> IF jtag > 11 THEN 2 ELSE 1]

(***************************************************************************)
(* The transport (StlinkCom.xfer): a recording double over a target        *)
(* memory image.  A call is logged with its arguments; rx_length = 0 and   *)
(* data = <<>> stand for the arguments left at their defaults.             *)
(***************************************************************************)
Xfer(cmd, rx_length, payload) == [cmd |-> cmd, rx_length |-> rx_length, data |-> payload]

\* the target memory image behind the probe
TargetByte(a) == (a % 251)

\* the address field of a bulk memory command, as the probe decodes it
CmdAddress(cmd) == cmd[3] + 256 * cmd[4] + 65536 * cmd[5] + 16777216 * cmd[6]

\* the probe's reply to a bulk memory read: rx_length bytes from the command's address
\* (the address is decoded once, as the value a, not once for every byte)
MemReply(cmd, rx_length) ==
    CHOOSE r \in { [i \in 1..rx_length |-> TargetByte(a + i - 1)] :
                     a \in {CmdAddress(cmd)} } : TRUE


(***************************************************************************)
(* The driver (Stlink).  A driver call takes and returns the record        *)
(*   [prims, xfers, err, reply]                                            *)
(* of the two logs, the exception raised so far and the value returned.    *)
(* A call made after an exception has been raised does nothing: the        *)
(* exception has already left the planner.  An action binds the record a   *)
(* call returns with "\E d \in {call}", so the call is evaluated once.      *)
(***************************************************************************)
Drv == [prims |-> prims, xfers |-> xfers, err |-> err, reply |-> <<>>]

Prim(name, a, n, payload) == [name |-> name, address |-> a, size |-> n, data |-> payload]

\* a bulk memory command: READMEM_32BIT, WRITEMEM_32BIT, READMEM_8BIT, WRITEMEM_8BIT
IsMemXfer(x) ==
    /\ Len(x.cmd) = 10
    /\ x.cmd[1] = Debug_COMMAND
    /\ x.cmd[2] \in {Debug_READMEM_32BIT, Debug_WRITEMEM_32BIT,
                      Debug_READMEM_8BIT, Debug_WRITEMEM_8BIT}

\* raise StlinkException(msg) inside a call that has been logged
Raise(d, msg) == [d EXCEPT !.err = msg]

\* self._com.xfer(cmd, rx_length=..., data=...) inside a call that has been logged
\* the transport has seen the command when it raises; the exception is not caught
ComXfer(d, cmd, rx_length, payload) ==
    LET q == Append(d.xfers, Xfer(cmd, rx_length, payload))
    IN IF fail_at # 0 /\ Len(SelectSeq(q, IsMemXfer)) = fail_at
       THEN [d EXCEPT !.xfers = q, !.err = "TransportError"]
       ELSE [d EXCEPT !.xfers = q, !.reply = MemReply(cmd, rx_length)]

\* Stlink.read_mem8
read_mem8(d, a, n) ==
    IF d.err # "none" THEN d
    ELSE LET d1 == [d EXCEPT !.prims = Append(@, Prim("read_mem8", a, n, <<>>))]
         IN IF n > _STLINK_MAXIMUM_8BIT_DATA
            THEN Raise(d1, "Too many Bytes to read")
            ELSE ComXfer(d1, <<Debug_COMMAND, Debug_READMEM_8BIT>>
                                \o to_bytes_le4(a) \o to_bytes_le4(n), n, <<>>)

\* mutant: the call is made although an exception has left the planner
write_mem8_resumed(d, a, payload) ==
    LET d1 == [d EXCEPT !.prims =
                   Append(@, Prim("write_mem8", a, Len(payload), payload))]
    IN IF Len(payload) > _STLINK_MAXIMUM_8BIT_DATA
       THEN Raise(d1, "Too many Bytes to write")
       ELSE ComXfer(d1, <<Debug_COMMAND, Debug_WRITEMEM_8BIT>>
                           \o to_bytes_le4(a) \o to_bytes_le4(Len(payload)),
                    0, payload)

\* Stlink.write_mem8
write_mem8(d, a, payload) ==
    IF d.err # "none" THEN d
    ELSE LET d1 == [d EXCEPT !.prims =
                        Append(@, Prim("write_mem8", a, Len(payload), payload))]
         IN IF Len(payload) > _STLINK_MAXIMUM_8BIT_DATA
            THEN Raise(d1, "Too many Bytes to write")
            ELSE ComXfer(d1, <<Debug_COMMAND, Debug_WRITEMEM_8BIT>>
                                \o to_bytes_le4(a) \o to_bytes_le4(Len(payload)),
                         0, payload)

\* Stlink.read_mem32
read_mem32(d, a, n) ==
    IF d.err # "none" THEN d
    ELSE LET d1 == [d EXCEPT !.prims = Append(@, Prim("read_mem32", a, n, <<>>))]
         IN IF a % 4 # 0
            THEN Raise(d1, "Address is not aligned to 4 Bytes")
            ELSE IF n % 4 # 0
            THEN Raise(d1, "Size is not aligned to 4 Bytes")
            ELSE IF n > _STLINK_MAXIMUM_TRANSFER_SIZE
            THEN Raise(d1, "Too many Bytes to read")
            ELSE ComXfer(d1, <<Debug_COMMAND, Debug_READMEM_32BIT>>
                                \o to_bytes_le4(a) \o to_bytes_le4(n), n, <<>>)

\* Stlink.write_mem32
write_mem32(d, a, payload) ==
    IF d.err # "none" THEN d
    ELSE LET d1 == [d EXCEPT !.prims =
                        Append(@, Prim("write_mem32", a, Len(payload), payload))]
         IN IF a % 4 # 0
            THEN Raise(d1, "Address is not aligned to 4 Bytes")
            ELSE IF Len(payload) % 4 # 0
            THEN Raise(d1, "Size is not aligned to 4 Bytes")
            ELSE IF Len(payload) > _STLINK_MAXIMUM_TRANSFER_SIZE
            THEN Raise(d1, "Too many Bytes to write")
            ELSE ComXfer(d1, <<Debug_COMMAND, Debug_WRITEMEM_32BIT>>
                                \o to_bytes_le4(a) \o to_bytes_le4(Len(payload)),
                         0, payload)

\* Stlink.get_mem32; the value returned is the number in res[4:8]
get_mem32(d, a) ==
    IF d.err # "none" THEN d
    ELSE LET d1 == [d EXCEPT !.prims = Append(@, Prim("get_mem32", a, 4, <<>>))]
         IN IF a % 4 # 0
            THEN Raise(d1, "Address is not aligned to 4 Bytes")
            ELSE ComXfer(d1, <<Debug_COMMAND, Apiv2_READDEBUGREG>> \o to_bytes_le4(a),
                         8, <<>>)

\* mutant: the command is sent before the address is tested
set_mem32_unchecked(d, a, v) ==
    IF d.err # "none" THEN d
    ELSE LET d1 == [d EXCEPT !.prims =
                        Append(@, Prim("set_mem32", a, 4, to_bytes_le4(v)))]
             d2 == ComXfer(d1, <<Debug_COMMAND, Apiv2_WRITEDEBUGREG>>
                                 \o to_bytes_le4(a) \o to_bytes_le4(v), 2, <<>>)
         IN IF a % 4 # 0
            THEN Raise(d2, "Address is not aligned to 4 Bytes")
            ELSE d2

\* Stlink.set_mem32
set_mem32(d, a, v) ==
    IF d.err # "none" THEN d
    ELSE LET d1 == [d EXCEPT !.prims =
                        Append(@, Prim("set_mem32", a, 4, to_bytes_le4(v)))]
         IN IF a % 4 # 0
            THEN Raise(d1, "Address is not aligned to 4 Bytes")
            ELSE ComXfer(d1, <<Debug_COMMAND, Apiv2_WRITEDEBUGREG>>
                                \o to_bytes_le4(a) \o to_bytes_le4(v), 2, <<>>)

(***************************************************************************)
(* Stlink.__init__: session open.                                          *)
(***************************************************************************)
\* the word the probe packs its version into (the transport's side)
VersionWord(stlink, jtag, last) == stlink * 4096 + jtag * 64 + last

VersionReplies ==
    { << VersionWord(2, j, 7) \div 256, VersionWord(2, j, 7) % 256, 131, 4, 72, 55 >> :
        j \in {0, 11, 12, 21, 22, 23, 30, 63} }

ModeReplies == { <<m, 0>> : m \in 0..MaxModeByte }

FreqReplies == { <<128, 0>>, <<129, 0>>, <<0, 0>> }

RequestedHz ==
    UNION { {_SWD_FREQ[i][1] - 1, _SWD_FREQ[i][1], _SWD_FREQ[i][1] + 1} :
              i \in 1..Len(_SWD_FREQ) }
    \cup {0, 500000}

\* Stlink._get_version
OpenGetVersion ==
    /\ pc = "new"
    /\ xfers' = Append(xfers, Xfer(<<GET_VERSION, 128>>, 6, <<>>))
    /\ version' = StlinkVersion(from_bytes_be2(SubSeq(ver_reply, 1, 2)))
    /\ pc' = "leave"
    /\ UNCHANGED <<ver_reply, mode_reply, freq_reply, fail_at, want, asked,
                   swd_frequency, op,
                   arg_address, arg_size, arg_data, address, size, data, index,
                   out, prims, err>>

\* mutant: BOOTLOADER mode is left like DFU mode
leave_cmd_bootloader(res0) ==
    IF res0 = Mode_DFU \/ res0 = Mode_BOOTLOADER THEN <<Dfu_COMMAND, Dfu_EXIT>>
    ELSE IF res0 = Mode_DEBUG THEN <<Debug_COMMAND, Debug_EXIT>>
    ELSE IF res0 = Mode_SWIM THEN <<Swim_COMMAND, Swim_EXIT>>
    ELSE <<>>

\* the command _leave_state chooses for the mode reply's first byte; <<>> is "return"
leave_cmd(res0) ==
    IF res0 = Mode_DFU THEN <<Dfu_COMMAND, Dfu_EXIT>>
    ELSE IF res0 = Mode_DEBUG THEN <<Debug_COMMAND, Debug_EXIT>>
    ELSE IF res0 = Mode_SWIM THEN <<Swim_COMMAND, Swim_EXIT>>
    ELSE <<>>

\* Stlink._leave_state
OpenLeaveState ==
    /\ pc = "leave"
    /\ LET q == Append(xfers, Xfer(<<GET_CURRENT_MODE>>, 2, <<>>))
           cmd == leave_cmd(mode_reply[1])
       IN xfers' = IF cmd = <<>> THEN q ELSE Append(q, Xfer(cmd, 0, <<>>))
    /\ pc' = "freq"
    /\ UNCHANGED <<ver_reply, mode_reply, freq_reply, fail_at, want, asked,
                   swd_frequency, version, op,
                   arg_address, arg_size, arg_data, address, size, data, index,
                   out, prims, err>>

\* mutant: the comparison with the entry's frequency is strict
RECURSIVE swd_freq_entry_strict(_, _)
swd_freq_entry_strict(frequency, i) ==
    IF i > Len(_SWD_FREQ) THEN 0
    ELSE IF frequency > _SWD_FREQ[i][1] THEN i
    ELSE swd_freq_entry_strict(frequency, i + 1)

\* the first entry of _SWD_FREQ, from entry i on, with frequency >= freq; 0 if none
RECURSIVE swd_freq_entry(_, _)
swd_freq_entry(frequency, i) ==
    IF i > Len(_SWD_FREQ) THEN 0
    ELSE IF frequency >= _SWD_FREQ[i][1] THEN i
    ELSE swd_freq_entry(frequency, i + 1)

\* mutant: the version test is off by one
sets_swd_freq_above(jtag) == jtag > 22

\* the test of __init__ that guards the call of _set_swd_freq
sets_swd_freq(jtag) == jtag >= 22

\* mutant: the reply to the set-frequency command is not tested
freq_switch_failed_never(res0) == FALSE

\* _set_swd_freq's test of the reply: "res[0] != 0x80"
freq_switch_failed(res0) == res0 # 128

\* __init__'s "if self._version.jtag >= 22: self._set_swd_freq(swd_frequency)"
OpenSetSwdFreq ==
    /\ pc = "freq"
    /\ IF sets_swd_freq(version.jtag)
       THEN LET i == swd_freq_entry(swd_frequency, 1)
            IN IF i = 0
               THEN /\ err' = "Selected SWD frequency is too low"
                    /\ pc' = "error"
                    /\ UNCHANGED xfers
               ELSE /\ xfers' = Append(xfers,
                                   Xfer(<<Debug_COMMAND, Apiv2_SWD_SET_FREQ,
                                          _SWD_FREQ[i][2]>>, 2, <<>>))
                    /\ IF freq_switch_failed(freq_reply[1])
                       THEN err' = "Error switching SWD frequency" /\ pc' = "error"
                       ELSE err' = err /\ pc' = "enter"
       ELSE /\ pc' = "enter"
            /\ UNCHANGED <<xfers, err>>
    /\ UNCHANGED <<ver_reply, mode_reply, freq_reply, fail_at, want, asked,
                   swd_frequency, version, op,
                   arg_address, arg_size, arg_data, address, size, data, index,
                   out, prims>>

\* mutant: the mode selector is ENTER_JTAG
enter_debug_swd_cmd_jtag == <<Debug_COMMAND, Apiv2_ENTER, Debug_ENTER_JTAG>>

\* Stlink._enter_debug_swd
enter_debug_swd_cmd == <<Debug_COMMAND, Apiv2_ENTER, Debug_ENTER_SWD>>

OpenEnterDebugSwd ==
    /\ pc = "enter"
    /\ xfers' = Append(xfers, Xfer(enter_debug_swd_cmd, 2, <<>>))
    /\ pc' = "ready"
    /\ UNCHANGED <<ver_reply, mode_reply, freq_reply, fail_at, want, asked,
                   swd_frequency, version, op,
                   arg_address, arg_size, arg_data, address, size, data, index,
                   out, prims, err>>

(***************************************************************************)
(* The planner (Swd) over the opened driver.  The calls are explored on    *)
(* the session opened with the default arguments on a probe found in       *)
(* DEBUG mode with jtag = 30.                                              *)
(***************************************************************************)
DefaultSession ==
    /\ pc = "ready"
    /\ version.jtag = 30
    /\ mode_reply[1] = Mode_DEBUG
    /\ swd_frequency = 1800000

\* the bytes a caller hands to write_mem, and the patterns it hands to fill_mem
DataBytes(n) == [i \in 1..n |-> (i * 7 + 1) % 256]
PatternBytes(n) == [i \in 1..n |-> (170 + 17 * (i - 1)) % 256]

\* mutant: without the case "size == MAXIMUM_8BIT_DATA"
_get_chunk_size_to_align_address_plain(a, n) ==
    IF a % 4 # 0 THEN Min(n, MAXIMUM_8BIT_DATA - (a % 4)) ELSE 0

\* Swd._get_chunk_size_to_align_address
_get_chunk_size_to_align_address(a, n) ==
    IF a % 4 # 0
    THEN IF n = MAXIMUM_8BIT_DATA THEN n
         ELSE Min(n, MAXIMUM_8BIT_DATA - (a % 4))
    ELSE 0

\* mutant: the loop has no 8 bit branch
read_uses_8bit_never(chunk_size) == FALSE

\* mutant: the threshold is the 8 bit primitive's limit
read_uses_8bit_upto_limit(chunk_size) ==
    chunk_size < _STLINK_MAXIMUM_8BIT_DATA /\ chunk_size % 4 # 0

\* mutant: the test of the remainder is inverted
read_uses_8bit_inverted(chunk_size) ==
    chunk_size < MAXIMUM_8BIT_DATA /\ chunk_size % 4 = 0

\* read_mem's loop: "chunk_size < MAXIMUM_8BIT_DATA and chunk_size % 4"
read_uses_8bit(chunk_size) ==
    chunk_size < MAXIMUM_8BIT_DATA /\ chunk_size % 4 # 0

\* mutant: "chunk_size -= chunk_size % 4" is left out
read_chunk_size32_unrounded(chunk_size) == Min(chunk_size, MAXIMUM_32BIT_DATA)

\* mutant: a 32 bit chunk is cut at the 8 bit primitive's limit
read_chunk_size32_short(chunk_size) ==
    LET c == Min(chunk_size, _STLINK_MAXIMUM_8BIT_DATA)
    IN c - (c % 4)

\* read_mem's loop: the size of a 32 bit chunk
read_chunk_size32(chunk_size) ==
    LET c == Min(chunk_size, MAXIMUM_32BIT_DATA)
    IN c - (c % 4)

\* mutant: the address is not advanced by the chunk
advance_dropped(a, chunk_size) == a

\* "address += chunk_size"
advance(a, chunk_size) == a + chunk_size

\* the numbers of next() calls of read_mem's consumer: n + 1 calls iterate to the
\* end (the last one gets StopIteration), fewer abandon the generator
Wants(n) == { w \in 0..(n + 1) : w <= MaxWant \/ w + MaxWant > n }

\* mutant: the generator's code runs without a next() call waiting for a byte
generator_runs_eagerly(n_asked, n_yielded) == TRUE

\* the generator's code runs only inside a next() call that the bytes of the
\* chunks read so far ("yield from" a list) cannot serve
generator_runs(n_asked, n_yielded) == n_asked > n_yielded

\* the consumer calls next() until it has all it wants or a call has to run the
\* generator's code: the calls before that one are served from the chunk last read
next_asked(n_want, n_yielded) == Min(n_want, n_yielded + 1)

ReadAsk ==
    /\ pc \in {"read_head", "read_loop"}
    /\ asked < next_asked(want, Len(out))
    /\ asked' = next_asked(want, Len(out))
    /\ UNCHANGED <<pc, ver_reply, mode_reply, freq_reply, fail_at, want, swd_frequency,
                   version, op, arg_address, arg_size, arg_data, address, size, data,
                   index, out, prims, xfers, err>>

\* Swd.read_mem is called: a generator is made, none of its code has run
ReadMemCall ==
    /\ DefaultSession
    /\ \E a \in Addresses, n \in Sizes :
          /\ op' = "read_mem"
          /\ arg_address' = a
          /\ arg_size' = n
          /\ address' = a
          /\ size' = n
          /\ want' \in Wants(n)
    /\ asked' = 0
    /\ pc' = "read_head"
    /\ UNCHANGED <<ver_reply, mode_reply, freq_reply, fail_at, swd_frequency, version,
                   arg_data, data, index, out, prims, xfers, err>>

\* read_mem up to its loop: the chunk that aligns the address
ReadHead ==
    /\ pc = "read_head"
    /\ generator_runs(asked, Len(out))
    /\ LET chunk_size == _get_chunk_size_to_align_address(address, size)
       IN IF chunk_size # 0
          THEN \E d \in {read_mem8(Drv, address, chunk_size)} :
               /\ prims' = d.prims
               /\ xfers' = d.xfers
               /\ err' = d.err
               /\ IF d.err # "none"
                  THEN pc' = "error" /\ UNCHANGED <<out, address, size>>
                  ELSE /\ out' = out \o d.reply
                       /\ address' = advance(address, chunk_size)
                       /\ size' = size - chunk_size
                       /\ pc' = "read_loop"
          ELSE /\ pc' = "read_loop"
               /\ UNCHANGED <<out, address, size, prims, xfers, err>>
    /\ UNCHANGED <<ver_reply, mode_reply, freq_reply, fail_at, want, asked,
                   swd_frequency, version, op,
                   arg_address, arg_size, arg_data, data, index>>

\* one iteration of read_mem's loop
ReadLoop ==
    /\ pc = "read_loop"
    /\ size # 0
    /\ generator_runs(asked, Len(out))
    /\ LET use8 == read_uses_8bit(size)
           chunk_size == IF use8 THEN size ELSE read_chunk_size32(size)
       IN \E d \in {IF use8 THEN read_mem8(Drv, address, chunk_size)
                               ELSE read_mem32(Drv, address, chunk_size)} :
          /\ prims' = d.prims
          /\ xfers' = d.xfers
          /\ err' = d.err
          /\ IF d.err # "none"
             THEN pc' = "error" /\ UNCHANGED <<out, address, size>>
             ELSE /\ out' = out \o d.reply
                  /\ address' = advance(address, chunk_size)
                  /\ size' = size - chunk_size
                  /\ pc' = "read_loop"
    /\ UNCHANGED <<ver_reply, mode_reply, freq_reply, fail_at, want, asked,
                   swd_frequency, version, op,
                   arg_address, arg_size, arg_data, data, index>>

\* read_mem's loop ends: the generator is exhausted
ReadReturn ==
    /\ pc = "read_loop"
    /\ size = 0
    /\ generator_runs(asked, Len(out))
    /\ pc' = "done"
    /\ UNCHANGED <<ver_reply, mode_reply, freq_reply, fail_at, want, asked,
                   swd_frequency, version, op,
                   arg_address, arg_size, arg_data, address, size, data, index,
                   out, prims, xfers, err>>

\* mutant: the first chunk is not cut at the 4 byte boundary
write_head_max_uncut(a) == MAXIMUM_8BIT_DATA

\* write_mem's first chunk: "MAXIMUM_8BIT_DATA - (address % 4)"
write_head_max(a) == MAXIMUM_8BIT_DATA - (a % 4)

\* mutant: the threshold is the 8 bit primitive's limit
write_splits_upto_limit(n) == n > _STLINK_MAXIMUM_8BIT_DATA

\* write_mem's loop: "len(chunk) > MAXIMUM_8BIT_DATA", the chunk is split
write_splits(n) == n > MAXIMUM_8BIT_DATA

\* write_mem's loop: "len(chunk) & 0xfffffffc", which clears the two low bits
\* (len(chunk) <= MAXIMUM_32BIT_DATA, so the mask cuts no high bit)
write_chunk_size32(n) == (n \div 4) * 4

\* mutant: the part written with 32 bit access is not deleted from the chunk
write_tail_kept(chunk, chunk_size32) == chunk

\* write_mem's loop: "del chunk[:chunk_size32]", what is left of the chunk
write_tail(chunk, chunk_size32) == SubSeq(chunk, chunk_size32 + 1, Len(chunk))

\* Swd.write_mem is called: "data = iter(data)"
WriteMemCall ==
    /\ DefaultSession
    /\ \E a \in Addresses, n \in Sizes :
          /\ op' = "write_mem"
          /\ arg_address' = a
          /\ arg_data' = DataBytes(n)
          /\ address' = a
          /\ data' = DataBytes(n)
    /\ fail_at' \in 0..MaxFailAt
    /\ pc' = "write_head"
    /\ UNCHANGED <<ver_reply, mode_reply, freq_reply, want, asked, swd_frequency, version,
                   arg_size, size, index, out, prims, xfers, err>>

\* write_mem up to its loop: the first chunk, which aligns the address
WriteHead ==
    /\ pc = "write_head"
    /\ IF address % 4 # 0
       THEN LET chunk_size_max == write_head_max(address)
                chunk == islice(data, chunk_size_max)
            IN /\ data' = islice_rest(data, chunk_size_max)
               /\ IF chunk = <<>>
                  THEN pc' = "done" /\ UNCHANGED <<address, prims, xfers, err>>
                  ELSE \E d \in {write_mem8(Drv, address, chunk)} :
                       /\ prims' = d.prims
                       /\ xfers' = d.xfers
                       /\ err' = d.err
                       /\ IF d.err # "none"
                          THEN pc' = "error" /\ UNCHANGED address
                          ELSE /\ address' = advance(address, Len(chunk))
                               /\ pc' = "write_loop"
       ELSE /\ pc' = "write_loop"
            /\ UNCHANGED <<address, data, prims, xfers, err>>
    /\ UNCHANGED <<ver_reply, mode_reply, freq_reply, fail_at, want, asked,
                   swd_frequency, version, op,
                   arg_address, arg_size, arg_data, size, index, out>>

\* one iteration of write_mem's loop
WriteLoop ==
    /\ pc = "write_loop"
    /\ LET chunk == islice(data, MAXIMUM_32BIT_DATA)
       IN /\ data' = islice_rest(data, MAXIMUM_32BIT_DATA)
          /\ IF chunk = <<>>
             THEN pc' = "done" /\ UNCHANGED <<address, prims, xfers, err>>
             ELSE IF Len(chunk) % 4 = 0
             THEN \E d \in {write_mem32(Drv, address, chunk)} :
                     /\ prims' = d.prims
                     /\ xfers' = d.xfers
                     /\ err' = d.err
                     /\ IF d.err # "none"
                        THEN pc' = "error" /\ UNCHANGED address
                        ELSE /\ address' = advance(address, Len(chunk))
                             /\ pc' = "write_loop"
             ELSE LET split == write_splits(Len(chunk))
                      chunk_size32 == write_chunk_size32(Len(chunk))
                      d1 == IF split
                            THEN write_mem32(Drv, address, Slice(chunk, 0, chunk_size32))
                            ELSE Drv
                      rest == IF split
                              THEN write_tail(chunk, chunk_size32)
                              ELSE chunk
                      a1 == IF split /\ d1.err = "none"
                            THEN advance(address, chunk_size32)
                            ELSE address
                  IN \E d2 \in {write_mem8(d1, a1, rest)} :
                     /\ prims' = d2.prims
                     /\ xfers' = d2.xfers
                     /\ err' = d2.err
                     /\ address' = a1
                     /\ pc' = IF d2.err # "none" THEN "error" ELSE "done"
    /\ UNCHANGED <<ver_reply, mode_reply, freq_reply, fail_at, want, asked,
                   swd_frequency, version, op,
                   arg_address, arg_size, arg_data, size, index, out>>

\* fill_mem's buffer: "pattern * (min(size, MAXIMUM_32BIT_DATA) // len(pattern) + 1)"
fill_data(pattern, n) ==
    Repeat(pattern, (Min(n, MAXIMUM_32BIT_DATA) \div Len(pattern)) + 1)

\* mutant: the threshold is the 8 bit primitive's limit
fill_uses_8bit_upto_limit(a, chunk_size) ==
    a % 4 # 0 \/ (chunk_size < _STLINK_MAXIMUM_8BIT_DATA /\ chunk_size % 4 # 0)

\* fill_mem's loop: "address % 4 or (chunk_size < MAXIMUM_8BIT_DATA and chunk_size % 4)"
fill_uses_8bit(a, chunk_size) ==
    a % 4 # 0 \/ (chunk_size < MAXIMUM_8BIT_DATA /\ chunk_size % 4 # 0)

\* fill_mem's loop: the size of an 8 bit chunk
fill_chunk_size8(a, chunk_size) ==
    IF chunk_size > MAXIMUM_8BIT_DATA
    THEN Min(chunk_size, MAXIMUM_8BIT_DATA - (a % 4))
    ELSE chunk_size

\* fill_mem's loop: the size of a 32 bit chunk
fill_chunk_size32(chunk_size) ==
    LET c == Min(chunk_size, MAXIMUM_32BIT_DATA)
    IN c - (c % 4)

\* fill_mem's loop: "index = (index + chunk_size) % len(pattern)"
fill_next_index(i, chunk_size, pattern) == (i + chunk_size) % Len(pattern)

\* Swd.fill_mem is called: "index = 0" and the buffer is built
FillMemCall ==
    /\ DefaultSession
    /\ \E a \in Addresses, n \in Sizes, l \in 0..MaxPatternLen :
          /\ op' = "fill_mem"
          /\ arg_address' = a
          /\ arg_size' = n
          /\ arg_data' = PatternBytes(l)
          /\ address' = a
          /\ size' = n
          /\ index' = 0
          /\ IF l = 0
             THEN /\ err' = "ZeroDivisionError"
                  /\ pc' = "error"
                  /\ UNCHANGED data
             ELSE /\ data' = fill_data(PatternBytes(l), n)
                  /\ pc' = "fill_loop"
                  /\ UNCHANGED err
    /\ fail_at' \in 0..MaxFailAt
    /\ UNCHANGED <<ver_reply, mode_reply, freq_reply, want, asked, swd_frequency, version,
                   out, prims, xfers>>

\* one iteration of fill_mem's loop
FillLoop ==
    /\ pc = "fill_loop"
    /\ size # 0
    /\ LET use8 == fill_uses_8bit(address, size)
           chunk_size == IF use8 THEN fill_chunk_size8(address, size)
                         ELSE fill_chunk_size32(size)
           payload == Slice(data, index, index + chunk_size)
       IN \E d \in {IF use8 THEN write_mem8(Drv, address, payload)
                               ELSE write_mem32(Drv, address, payload)} :
          /\ prims' = d.prims
          /\ xfers' = d.xfers
          /\ err' = d.err
          /\ IF d.err # "none"
             THEN pc' = "error" /\ UNCHANGED <<index, address, size>>
             ELSE /\ index' = fill_next_index(index, chunk_size, arg_data)
                  /\ address' = advance(address, chunk_size)
                  /\ size' = size - chunk_size
                  /\ pc' = "fill_loop"
    /\ UNCHANGED <<ver_reply, mode_reply, freq_reply, fail_at, want, asked,
                   swd_frequency, version, op,
                   arg_address, arg_size, arg_data, data, out>>

\* fill_mem's loop ends
FillReturn ==
    /\ pc = "fill_loop"
    /\ size = 0
    /\ pc' = "done"
    /\ UNCHANGED <<ver_reply, mode_reply, freq_reply, fail_at, want, asked,
                   swd_frequency, version, op,
                   arg_address, arg_size, arg_data, address, size, data, index,
                   out, prims, xfers, err>>

(***************************************************************************)
(* The driver's memory primitives called directly by the user of the       *)
(* opened session, one call per action: op is the primitive, the call's    *)
(* arguments go to arg_address, arg_size and arg_data, what a read returns *)
(* goes to out.                                                            *)
(***************************************************************************)
\* the 32 bit numbers a caller hands to set_mem32
RegValues == {0, 1, 305419896}

\* the state after the driver call that returned d
DriverReturn(d) ==
    /\ prims' = d.prims
    /\ xfers' = d.xfers
    /\ err' = d.err
    /\ pc' = IF d.err = "none" THEN "done" ELSE "error"

ReadMem8Call ==
    /\ DefaultSession
    /\ \E a \in Addresses, n \in Sizes :
          LET d == read_mem8(Drv, a, n)
          IN /\ op' = "read_mem8"
             /\ arg_address' = a
             /\ arg_size' = n
             /\ out' = d.reply
             /\ DriverReturn(d)
    /\ UNCHANGED <<ver_reply, mode_reply, freq_reply, fail_at, want, asked,
                   swd_frequency, version,
                   arg_data, address, size, data, index>>

WriteMem8Call ==
    /\ DefaultSession
    /\ \E a \in Addresses, n \in Sizes :
          LET d == write_mem8(Drv, a, DataBytes(n))
          IN /\ op' = "write_mem8"
             /\ arg_address' = a
             /\ arg_data' = DataBytes(n)
             /\ DriverReturn(d)
    /\ UNCHANGED <<ver_reply, mode_reply, freq_reply, fail_at, want, asked,
                   swd_frequency, version,
                   arg_size, address, size, data, index, out>>

ReadMem32Call ==
    /\ DefaultSession
    /\ \E a \in Addresses, n \in Sizes :
          LET d == read_mem32(Drv, a, n)
          IN /\ op' = "read_mem32"
             /\ arg_address' = a
             /\ arg_size' = n
             /\ out' = d.reply
             /\ DriverReturn(d)
    /\ UNCHANGED <<ver_reply, mode_reply, freq_reply, fail_at, want, asked,
                   swd_frequency, version,
                   arg_data, address, size, data, index>>

WriteMem32Call ==
    /\ DefaultSession
    /\ \E a \in Addresses, n \in Sizes :
          LET d == write_mem32(Drv, a, DataBytes(n))
          IN /\ op' = "write_mem32"
             /\ arg_address' = a
             /\ arg_data' = DataBytes(n)
             /\ DriverReturn(d)
    /\ UNCHANGED <<ver_reply, mode_reply, freq_reply, fail_at, want, asked,
                   swd_frequency, version,
                   arg_size, address, size, data, index, out>>

GetMem32Call ==
    /\ DefaultSession
    /\ \E a \in Addresses :
          LET d == get_mem32(Drv, a)
          IN /\ op' = "get_mem32"
             /\ arg_address' = a
             /\ out' = Slice(d.reply, 4, 8)
             /\ DriverReturn(d)
    /\ UNCHANGED <<ver_reply, mode_reply, freq_reply, fail_at, want, asked,
                   swd_frequency, version,
                   arg_size, arg_data, address, size, data, index>>

SetMem32Call ==
    /\ DefaultSession
    /\ \E a \in Addresses, v \in RegValues :
          LET d == set_mem32(Drv, a, v)
          IN /\ op' = "set_mem32"
             /\ arg_address' = a
             /\ arg_data' = to_bytes_le4(v)
             /\ DriverReturn(d)
    /\ UNCHANGED <<ver_reply, mode_reply, freq_reply, fail_at, want, asked,
                   swd_frequency, version,
                   arg_size, address, size, data, index, out>>

Init ==
    /\ pc = "new"
    /\ ver_reply \in VersionReplies
    /\ mode_reply \in ModeReplies
    /\ freq_reply \in FreqReplies
    /\ fail_at = 0
    /\ want = 0
    /\ asked = 0
    /\ swd_frequency \in RequestedHz
    /\ version = NoVersion
    /\ op = "none"
    /\ arg_address = 0
    /\ arg_size = 0
    /\ arg_data = <<>>
    /\ address = 0
    /\ size = 0
    /\ data = <<>>
    /\ index = 0
    /\ out = <<>>
    /\ prims = <<>>
    /\ xfers = <<>>
    /\ err = "none"

Next ==
    \/ OpenGetVersion
    \/ OpenLeaveState
    \/ OpenSetSwdFreq
    \/ OpenEnterDebugSwd
    \/ ReadMemCall
    \/ ReadAsk
    \/ ReadHead
    \/ ReadLoop
    \/ ReadReturn
    \/ WriteMemCall
    \/ WriteHead
    \/ WriteLoop
    \/ FillMemCall
    \/ FillLoop
    \/ FillReturn
    \/ ReadMem8Call
    \/ WriteMem8Call
    \/ ReadMem32Call
    \/ WriteMem32Call
    \/ GetMem32Call
    \/ SetMem32Call

Spec == Init /\ [][Next]_vars

\* a step of the body of a planner call, or of the consumer of read_mem's generator
PlannerStep ==
    \/ ReadAsk
    \/ ReadHead
    \/ ReadLoop
    \/ ReadReturn
    \/ WriteHead
    \/ WriteLoop
    \/ FillLoop
    \/ FillReturn

\* a call that has been made runs on: the body of write_mem and fill_mem is
\* sequential code, and the consumer of read_mem makes the next() calls it wants
FairSpec == Spec /\ WF_vars(PlannerStep)

(***************************************************************************)
(* Vocabulary of the properties.                                           *)
(***************************************************************************)
\* the requests ps, in order, start at a and each starts where the previous ended
Tiles(ps, a) ==
    \A i \in 1..Len(ps) :
        ps[i].address = (IF i = 1 THEN a ELSE ps[i - 1].address + ps[i - 1].size)

\* the address after the last request of ps
EndOf(ps, a) == IF ps = <<>> THEN a ELSE ps[Len(ps)].address + ps[Len(ps)].size

RECURSIVE SumSizes(_)
SumSizes(ps) == IF ps = <<>> THEN 0 ELSE ps[1].size + SumSizes(Tail(ps))

RECURSIVE Payloads(_)
Payloads(ps) == IF ps = <<>> THEN <<>> ELSE ps[1].data \o Payloads(Tail(ps))

IsPrefix(s, t) == Len(s) <= Len(t) /\ s = SubSeq(t, 1, Len(s))

\* the bulk memory commands among the transport calls, as requests
MemRequest(x) ==
    [name |-> CASE x.cmd[2] = 7 -> "read_mem32"
                [] x.cmd[2] = 8 -> "write_mem32"
                [] x.cmd[2] = 12 -> "read_mem8"
                [] OTHER -> "write_mem8",
     address |-> x.cmd[3] + 256 * x.cmd[4] + 65536 * x.cmd[5] + 16777216 * x.cmd[6],
     size |-> x.cmd[7] + 256 * x.cmd[8] + 65536 * x.cmd[9] + 16777216 * x.cmd[10],
     data |-> x.data]

MemXfers ==
    LET ms == SelectSeq(xfers, IsMemXfer)
    IN [i \in 1..Len(ms) |-> MemRequest(ms[i])]

\* the image of [a, a+n) in the target memory
Image(a, n) == [i \in 1..n |-> TargetByte(a + i - 1)]

\* pattern tiled over n bytes
Tiled(pattern, n) == [i \in 1..n |-> pattern[((i - 1) % Len(pattern)) + 1]]

Aligned(a) == a % 4 = 0

\* the calls of the planner (Swd), as opposed to direct calls of a primitive
PlannerOps == {"read_mem", "write_mem", "fill_mem"}

\* the commands sent by the open of the default session
DefaultOpenLog ==
    << Xfer(<<241, 128>>, 6, <<>>), Xfer(<<245>>, 2, <<>>), Xfer(<<242, 33>>, 0, <<>>),
       Xfer(<<242, 67, 1>>, 2, <<>>), Xfer(<<242, 48, 163>>, 2, <<>>) >>

(***************************************************************************)
(* C1.  Fully consumed, read_mem(addr, len) yields exactly len bytes       *)
(* (the image of [addr, addr+len)), it never ends in an exception, and the *)
(* (address, size) requests it issues, on the driver and on the wire,      *)
(* tile [addr, addr+len): the first starts at addr, each next one starts   *)
(* where the previous ended, none reaches beyond addr+len, and when the    *)
(* generator is exhausted the sizes sum to len.                            *)
(***************************************************************************)
C1_ReadTiles ==
    op = "read_mem" =>
        /\ err = "none"
        /\ Tiles(prims, arg_address)
        /\ EndOf(prims, arg_address) <= arg_address + arg_size
        /\ Len(out) = SumSizes(prims)
        /\ [i \in 1..Len(prims) |-> [name |-> prims[i].name,
                                     address |-> prims[i].address,
                                     size |-> prims[i].size]]
             = [i \in 1..Len(MemXfers) |-> [name |-> MemXfers[i].name,
                                            address |-> MemXfers[i].address,
                                            size |-> MemXfers[i].size]]
        /\ pc = "done" =>
              /\ SumSizes(prims) = arg_size
              /\ EndOf(prims, arg_address) = arg_address + arg_size
              /\ out = Image(arg_address, arg_size)

\* an unaligned read of more than 1024 bytes, exhausted: head, body and tail
C1_Witness ==
    /\ op = "read_mem"
    /\ pc = "done"
    /\ ~Aligned(arg_address)
    /\ arg_size > MAXIMUM_32BIT_DATA
    /\ Len(prims) >= 3
    /\ out = Image(arg_address, arg_size)

(***************************************************************************)
(* C2.  Every 32 bit write write_mem issues has an address that is a       *)
(* multiple of 4 and a byte count that is a multiple of 4 and at most      *)
(* 1024; every 8 bit write it issues carries at most 64 bytes.             *)
(***************************************************************************)
C2_WriteLimits ==
    op = "write_mem" =>
        \A i \in 1..Len(prims) :
            /\ prims[i].name \in {"write_mem32", "write_mem8"}
            /\ prims[i].name = "write_mem32" =>
                  /\ prims[i].address % 4 = 0
                  /\ Len(prims[i].data) % 4 = 0
                  /\ Len(prims[i].data) <= 1024
            /\ prims[i].name = "write_mem8" => Len(prims[i].data) <= 64

\* an unaligned write of more than 1024 bytes: 8 bit head, 32 bit body, 8 bit tail
C2_Witness ==
    /\ op = "write_mem"
    /\ pc = "done"
    /\ ~Aligned(arg_address)
    /\ Len(arg_data) > MAXIMUM_32BIT_DATA
    /\ \E i, j, k \in 1..Len(prims) :
          /\ i < j /\ j < k
          /\ prims[i].name = "write_mem8"
          /\ prims[j].name = "write_mem32"
          /\ prims[k].name = "write_mem8"

(***************************************************************************)
(* C3.  While every transport call returns (fail_at = 0),                  *)
(* write_mem(addr, data) never ends in an exception, and the writes        *)
(* that reach the wire carry every byte of data exactly once, in order, to *)
(* consecutive addresses from addr: between steps the bytes written        *)
(* followed by the bytes left in the iterator are data, and when           *)
(* write_mem returns (also by the return that follows a chunk whose length *)
(* is not a multiple of 4) the iterator is empty and the payload sizes sum *)
(* to len(data).                                                           *)
(***************************************************************************)
C3_WriteAllOnce ==
    (op = "write_mem" /\ fail_at = 0) =>
        /\ err = "none"
        /\ Tiles(MemXfers, arg_address)
        /\ \A i \in 1..Len(MemXfers) : MemXfers[i].size = Len(MemXfers[i].data)
        /\ Payloads(MemXfers) \o data = arg_data
        /\ pc = "done" =>
              /\ data = <<>>
              /\ Payloads(MemXfers) = arg_data
              /\ SumSizes(MemXfers) = Len(arg_data)

\* write_mem has returned after a chunk that was split into a 32 bit and an 8 bit write
C3_Witness ==
    /\ op = "write_mem"
    /\ pc = "done"
    /\ Len(arg_data) > MAXIMUM_32BIT_DATA
    /\ Len(prims) >= 2
    /\ prims[Len(prims)].name = "write_mem8"
    /\ prims[Len(prims) - 1].name = "write_mem32"
    /\ prims[Len(prims) - 1].size # MAXIMUM_32BIT_DATA
    /\ Payloads(MemXfers) = arg_data

(***************************************************************************)
(* C4.  For a non-empty pattern, and while every transport call returns    *)
(* (fail_at = 0), fill_mem(addr, pattern, len) does not end               *)
(* in an exception and, when it returns, has written exactly len bytes to  *)
(* [addr, addr+len), the byte at offset i being pattern[i mod len(pattern)]*)
(* also across primitive boundaries and for len > 1024.                    *)
(***************************************************************************)
C4_FillPattern ==
    (op = "fill_mem" /\ arg_data # <<>> /\ fail_at = 0) =>
        /\ err = "none"
        /\ Tiles(MemXfers, arg_address)
        /\ pc = "done" =>
              /\ SumSizes(MemXfers) = arg_size
              /\ Payloads(MemXfers) = Tiled(arg_data, arg_size)

(***************************************************************************)
(* C5.  For addr % 4 = 0 and 0 < len <= 1024 with len % 4 = 0,             *)
(* read_mem(addr, len) issues exactly one primitive, a 32 bit read at addr *)
(* of size len: nothing else is ever issued, and it has been issued when   *)
(* the generator is exhausted.                                             *)
(***************************************************************************)
C5_AlignedReadOne32 ==
    (op = "read_mem" /\ Aligned(arg_address) /\ arg_size > 0 /\ arg_size <= 1024
        /\ arg_size % 4 = 0) =>
        LET plan == << Prim("read_mem32", arg_address, arg_size, <<>>) >>
        IN /\ err = "none"
           /\ IsPrefix(prims, plan)
           /\ IsPrefix(MemXfers, plan)
           /\ pc = "done" => (prims = plan /\ MemXfers = plan)

\* the largest such read, exhausted
C5_Witness ==
    /\ op = "read_mem"
    /\ pc = "done"
    /\ Aligned(arg_address)
    /\ arg_size = 1024
    /\ Len(prims) = 1

(***************************************************************************)
(* C6 as stated: for addr % 4 = 0 and 0 < len <= 64 with len % 4 # 0,      *)
(* read_mem(addr, len) issues exactly one primitive, an 8 bit read at addr *)
(* of size len.                                                            *)
(***************************************************************************)
C6_Original ==
    (op = "read_mem" /\ Aligned(arg_address) /\ arg_size > 0 /\ arg_size <= 64
        /\ arg_size % 4 # 0 /\ pc = "done") =>
        prims = << Prim("read_mem8", arg_address, arg_size, <<>>) >>

(***************************************************************************)
(* C6 amended: the planner's 8 bit threshold is MAXIMUM_8BIT_DATA = 4.     *)
(* For addr % 4 = 0 and 0 < len < 4, read_mem(addr, len) issues exactly    *)
(* one primitive, an 8 bit read at addr of size len; for 4 < len <= 64     *)
(* with len % 4 # 0 it issues exactly two: a 32 bit read at addr of        *)
(* len - len % 4 bytes, then an 8 bit read of the last len % 4 bytes.      *)
(***************************************************************************)
C6_AlignedReadShort ==
    (op = "read_mem" /\ Aligned(arg_address) /\ arg_size > 0 /\ arg_size <= 64
        /\ arg_size % 4 # 0) =>
        LET r == arg_size % 4
            plan == IF arg_size < 4
                    THEN << Prim("read_mem8", arg_address, arg_size, <<>>) >>
                    ELSE << Prim("read_mem32", arg_address, arg_size - r, <<>>),
                            Prim("read_mem8", arg_address + arg_size - r, r, <<>>) >>
        IN /\ err = "none"
           /\ IsPrefix(prims, plan)
           /\ IsPrefix(MemXfers, plan)
           /\ pc = "done" => (prims = plan /\ MemXfers = plan)

\* a read of 3 bytes at an aligned address, exhausted after its one 8 bit read
C6_Witness ==
    /\ op = "read_mem"
    /\ pc = "done"
    /\ Aligned(arg_address)
    /\ arg_size = 3
    /\ prims = << Prim("read_mem8", arg_address, 3, <<>>) >>

(***************************************************************************)
(* C7 as stated: for addr % 4 # 0 and 0 < len <= 64, read_mem(addr, len)   *)
(* issues exactly one primitive, an 8 bit read at addr of the whole len.   *)
(***************************************************************************)
C7_Original ==
    (op = "read_mem" /\ ~Aligned(arg_address) /\ arg_size > 0 /\ arg_size <= 64
        /\ pc = "done") =>
        prims = << Prim("read_mem8", arg_address, arg_size, <<>>) >>

(***************************************************************************)
(* C7 amended: for addr % 4 # 0 and 0 < len <= 64, read_mem(addr, len)     *)
(* issues one 8 bit read at addr of the whole len exactly when             *)
(* len <= 4 - addr % 4 or len = 4 (MAXIMUM_8BIT_DATA); for every other len *)
(* the head is split off: the first primitive is an 8 bit read at addr of  *)
(* 4 - addr % 4 bytes and more primitives follow.  read_mem(0x20000001, 7) *)
(* emits read_mem8(0x20000001, 3), read_mem32(0x20000004, 4).              *)
(***************************************************************************)
C7_UnalignedReadHead ==
    (op = "read_mem" /\ ~Aligned(arg_address) /\ arg_size > 0 /\ arg_size <= 64) =>
        LET gap == 4 - (arg_address % 4)
            whole == << Prim("read_mem8", arg_address, arg_size, <<>>) >>
        IN /\ err = "none"
           /\ IF arg_size <= gap \/ arg_size = 4
              THEN /\ IsPrefix(prims, whole)
                   /\ pc \in {"read_loop", "done"} => prims = whole
              ELSE /\ prims # <<>> => prims[1] = Prim("read_mem8", arg_address, gap, <<>>)
                   /\ pc = "done" => Len(prims) >= 2
           /\ (arg_address = BaseAddress + 1 /\ arg_size = 7 /\ pc = "done") =>
                 prims = << Prim("read_mem8", BaseAddress + 1, 3, <<>>),
                            Prim("read_mem32", BaseAddress + 4, 4, <<>>) >>

\* read_mem(0x20000001, 4), exhausted after one 8 bit read of 4 bytes
C7_Witness ==
    /\ op = "read_mem"
    /\ pc = "done"
    /\ arg_address = BaseAddress + 1
    /\ arg_size = 4
    /\ prims = << Prim("read_mem8", BaseAddress + 1, 4, <<>>) >>

(***************************************************************************)
(* C8 as stated: fill_mem at a 4 byte aligned address with a length below  *)
(* the 8 bit limit (64) that is not a multiple of 4 issues exactly one     *)
(* primitive, an 8 bit write of the whole tiled pattern, and no 32 bit     *)
(* write; fill_mem(0x20000000, [0xAA,0xBB], 5) emits exactly               *)
(* write_mem8(0x20000000, [AA,BB,AA,BB,AA]).                               *)
(***************************************************************************)
C8_Original ==
    (op = "fill_mem" /\ arg_data # <<>> /\ Aligned(arg_address) /\ arg_size > 0
        /\ arg_size < 64 /\ arg_size % 4 # 0 /\ pc = "done") =>
        prims = << Prim("write_mem8", arg_address, arg_size,
                        Tiled(arg_data, arg_size)) >>

(***************************************************************************)
(* C8 amended: the planner's 8 bit threshold is MAXIMUM_8BIT_DATA = 4.     *)
(* fill_mem at a 4 byte aligned address with 0 < len < 4 issues exactly    *)
(* one primitive, an 8 bit write of the whole tiled pattern; with          *)
(* 4 < len < 64 and len % 4 # 0 it issues exactly two: a 32 bit write of   *)
(* the first len - len % 4 bytes of the tiled pattern, then an 8 bit write *)
(* of its last len % 4 bytes.  fill_mem(0x20000000, [0xAA,0xBB], 5) emits  *)
(* write_mem32(0x20000000, [AA,BB,AA,BB]), write_mem8(0x20000004, [AA]).   *)
(***************************************************************************)
C8_AlignedFillShort ==
    (op = "fill_mem" /\ arg_data # <<>> /\ Aligned(arg_address) /\ arg_size > 0
        /\ arg_size < 64 /\ arg_size % 4 # 0) =>
        LET r == arg_size % 4
            t == Tiled(arg_data, arg_size)
            plan == IF arg_size < 4
                    THEN << Prim("write_mem8", arg_address, arg_size, t) >>
                    ELSE << Prim("write_mem32", arg_address, arg_size - r,
                                 SubSeq(t, 1, arg_size - r)),
                            Prim("write_mem8", arg_address + arg_size - r, r,
                                 SubSeq(t, arg_size - r + 1, arg_size)) >>
        IN /\ fail_at = 0 => err = "none"
           /\ IsPrefix(prims, plan)
           /\ IsPrefix(MemXfers, plan)
           /\ pc = "done" => (prims = plan /\ MemXfers = plan)
           /\ (arg_address = BaseAddress /\ arg_data = <<170, 187>> /\ arg_size = 5
                 /\ pc = "done") =>
                 prims = << Prim("write_mem32", BaseAddress, 4, <<170, 187, 170, 187>>),
                            Prim("write_mem8", BaseAddress + 4, 1, <<170>>) >>

\* fill_mem(0x20000000, [0xAA,0xBB], 3) has returned after its one 8 bit write
C8_Witness ==
    /\ op = "fill_mem"
    /\ pc = "done"
    /\ arg_address = BaseAddress
    /\ arg_data = <<170, 187>>
    /\ arg_size = 3
    /\ prims = << Prim("write_mem8", BaseAddress, 3, <<170, 187, 170>>) >>

(***************************************************************************)
(* C9.  No primitive issued by read_mem, write_mem or fill_mem has size 0  *)
(* (a read's size, a write's byte count), on the driver or on the wire,    *)
(* and a request of length 0 (or of empty data) issues no primitive.       *)
(***************************************************************************)
C9_NoEmptyPrimitive ==
    /\ op \in PlannerOps =>
          /\ \A i \in 1..Len(prims) :
                /\ prims[i].size > 0
                /\ prims[i].name \in {"write_mem8", "write_mem32"} =>
                      Len(prims[i].data) > 0
          /\ \A i \in 1..Len(MemXfers) :
                /\ MemXfers[i].size > 0
                /\ MemXfers[i].name \in {"write_mem8", "write_mem32"} =>
                      Len(MemXfers[i].data) > 0
    /\ (op \in {"read_mem", "fill_mem"} /\ arg_size = 0) =>
          (prims = <<>> /\ MemXfers = <<>>)
    /\ (op = "write_mem" /\ arg_data = <<>>) => (prims = <<>> /\ MemXfers = <<>>)

\* write_mem of empty data at an unaligned address has returned, nothing issued
C9_Witness ==
    /\ op = "write_mem"
    /\ pc = "done"
    /\ ~Aligned(arg_address)
    /\ arg_data = <<>>
    /\ prims = <<>>

(***************************************************************************)
(* C10.  The commands of session open, in the order sent, are always a     *)
(* prefix of: the version query [0xF1,0x80], the mode query [0xF5], at     *)
(* most one leave-mode command, the set-frequency command                  *)
(* [0xF2,0x43,divisor] if and only if the decoded jtag >= 22, and last the *)
(* enter-Debug/SWD command [0xF2,0x30,..]; an open that completes has sent *)
(* all of them.  With jtag < 22 no set-frequency command is sent and open  *)
(* does not fail, whatever requested_hz is.                                *)
(***************************************************************************)
C10_OpenOrder ==
    op = "none" =>
        LET jtag == ((ver_reply[1] * 256 + ver_reply[2]) \div 64) % 64
            cmds == [i \in 1..Len(xfers) |-> xfers[i].cmd]
            LeaveCmds == { <<243, 7>>, <<242, 33>>, <<244, 1>> }
            Divisors == { _SWD_FREQ[i][2] : i \in 1..Len(_SWD_FREQ) }
            FreqCmds == { <<242, 67, d>> : d \in Divisors }
            IsEnter(c) == Len(c) = 3 /\ c[1] = 242 /\ c[2] = 48
            Orders == { <<lv, fq>> \in (0..1) \X (0..1) : fq = 1 <=> jtag >= 22 }
            Canonical(lv, fq) ==
                /\ Len(cmds) = 3 + lv + fq
                /\ cmds[1] = <<241, 128>>
                /\ cmds[2] = <<245>>
                /\ lv = 1 => cmds[3] \in LeaveCmds
                /\ fq = 1 => cmds[3 + lv] \in FreqCmds
                /\ IsEnter(cmds[Len(cmds)])
            Started(lv, fq) ==
                /\ Len(cmds) < 3 + lv + fq
                /\ Len(cmds) >= 1 => cmds[1] = <<241, 128>>
                /\ Len(cmds) >= 2 => cmds[2] = <<245>>
                /\ (lv = 1 /\ Len(cmds) >= 3) => cmds[3] \in LeaveCmds
                /\ (fq = 1 /\ Len(cmds) >= 3 + lv) => cmds[3 + lv] \in FreqCmds
        IN /\ \E o \in Orders : Canonical(o[1], o[2]) \/ Started(o[1], o[2])
           /\ pc = "ready" => \E o \in Orders : Canonical(o[1], o[2])
           /\ (\E i \in 1..Len(cmds) : IsEnter(cmds[i])) => pc = "ready"
           /\ jtag < 22 =>
                 /\ err = "none"
                 /\ pc # "error"
                 /\ \A i \in 1..Len(cmds) : cmds[i] \notin FreqCmds

\* the open with jtag = 30 and requested_hz = 500000 on a probe found in DEBUG mode
C10_Witness ==
    /\ op = "none"
    /\ pc = "ready"
    /\ swd_frequency = 500000
    /\ [i \in 1..Len(xfers) |-> xfers[i].cmd] =
          << <<241, 128>>, <<245>>, <<242, 33>>, <<242, 67, 7>>, <<242, 48, 163>> >>

(***************************************************************************)
(* C11 as stated: the command that session open sends to enter Debug/SWD,  *)
(* the last command of every successful open, is exactly the three bytes   *)
(* [0xF2, 0x30, 0x00], sent with a 2 byte reply expected.                  *)
(***************************************************************************)
C11_Original ==
    (op = "none" /\ pc = "ready") =>
        xfers[Len(xfers)] = Xfer(<<242, 48, 0>>, 2, <<>>)

(***************************************************************************)
(* C11 amended: the last command of every successful open is exactly the   *)
(* three bytes [0xF2, 0x30, 0xA3] (Apiv2.ENTER with the selector           *)
(* Debug.ENTER_SWD), sent with a 2 byte reply expected and no payload; it  *)
(* is sent once, and only by an open that completes.                       *)
(***************************************************************************)
C11_EnterCommand ==
    op = "none" =>
        LET Enters == { i \in 1..Len(xfers) :
                          Len(xfers[i].cmd) >= 2 /\ xfers[i].cmd[1] = 242
                            /\ xfers[i].cmd[2] = 48 }
        IN IF pc = "ready"
           THEN /\ Enters = {Len(xfers)}
                /\ xfers[Len(xfers)] = Xfer(<<242, 48, 163>>, 2, <<>>)
           ELSE Enters = {}

\* a completed open on a probe with jtag < 22 found in MASS mode: three commands
C11_Witness ==
    /\ op = "none"
    /\ pc = "ready"
    /\ Len(xfers) = 3
    /\ xfers[3] = Xfer(<<242, 48, 163>>, 2, <<>>)

(***************************************************************************)
(* C12.  With jtag >= 22 and requested_hz >= 25000, once the frequency     *)
(* step is over exactly one set-frequency command has been sent, and its   *)
(* divisor is that of the table entry with the greatest hz that does not   *)
(* exceed requested_hz; before the step none has been sent.                *)
(***************************************************************************)
C12_FrequencySelection ==
    LET jtag == ((ver_reply[1] * 256 + ver_reply[2]) \div 64) % 64
        Table == { <<4000000, 0>>, <<1800000, 1>>, <<1200000, 2>>, <<950000, 3>>,
                   <<480000, 7>>, <<240000, 15>>, <<125000, 31>>, <<100000, 40>>,
                   <<50000, 79>>, <<25000, 158>> }
        Fits == { e \in Table : e[1] <= swd_frequency }
        Best == CHOOSE e \in Fits : \A f \in Fits : f[1] <= e[1]
        Sent == { i \in 1..Len(xfers) :
                    Len(xfers[i].cmd) = 3 /\ xfers[i].cmd[1] = 242
                      /\ xfers[i].cmd[2] = 67 }
    IN (op = "none" /\ jtag >= 22 /\ swd_frequency >= 25000) =>
          IF pc \in {"new", "leave", "freq"}
          THEN Sent = {}
          ELSE /\ Cardinality(Sent) = 1
               /\ \A i \in Sent : xfers[i] = Xfer(<<242, 67, Best[2]>>, 2, <<>>)

\* requested_hz just below a table entry: 1799999 Hz selects 1200000 Hz, divisor 2
C12_Witness ==
    /\ op = "none"
    /\ pc = "ready"
    /\ swd_frequency = 1799999
    /\ \E i \in 1..Len(xfers) : xfers[i].cmd = <<242, 67, 2>>

(***************************************************************************)
(* C13.  A direct call of read_mem8 / write_mem8 with more than 64 bytes,  *)
(* of read_mem32 / write_mem32 with address % 4 # 0, length % 4 # 0 or     *)
(* length > 1024, or of get_mem32 / set_mem32 with address % 4 # 0 ends in *)
(* an error and the transport has seen no command of it: the commands seen *)
(* are still those of the open.  A call with valid arguments sends exactly *)
(* one command.                                                            *)
(***************************************************************************)
C13_ValidateBeforeTransport ==
    LET n == IF op \in {"write_mem8", "write_mem32"} THEN Len(arg_data) ELSE arg_size
        Invalid ==
            CASE op \in {"read_mem8", "write_mem8"} -> n > 64
              [] op \in {"read_mem32", "write_mem32"} ->
                    arg_address % 4 # 0 \/ n % 4 # 0 \/ n > 1024
              [] op \in {"get_mem32", "set_mem32"} -> arg_address % 4 # 0
              [] OTHER -> FALSE
    IN op \in {"read_mem8", "write_mem8", "read_mem32", "write_mem32",
               "get_mem32", "set_mem32"} =>
          IF Invalid
          THEN pc = "error" /\ err # "none" /\ xfers = DefaultOpenLog
          ELSE pc = "done" /\ err = "none" /\ Len(xfers) = Len(DefaultOpenLog) + 1
                 /\ IsPrefix(DefaultOpenLog, xfers)

\* set_mem32 at an address that is not a multiple of 4 has failed, nothing sent
C13_Witness ==
    /\ op = "set_mem32"
    /\ arg_address % 4 = 2
    /\ pc = "error"
    /\ err = "Address is not aligned to 4 Bytes"
    /\ xfers = DefaultOpenLog

(***************************************************************************)
(* C14.  If the transport raises in the k-th primitive of a write_mem or   *)
(* fill_mem plan (fail_at = k), the call ends with that error; the         *)
(* transport has then seen exactly k bulk commands: the k-1 earlier ones,  *)
(* each once, at consecutive addresses from addr and in the order issued   *)
(* by the planner, then the failing one, once (no retry); nothing is       *)
(* issued after it, on the driver or on the wire, and the call has no      *)
(* further step.  Before the k-th primitive no transport error is seen.    *)
(***************************************************************************)
C14_TransportErrorStops ==
    (op \in {"write_mem", "fill_mem"} /\ fail_at > 0) =>
        /\ Len(MemXfers) <= fail_at
        /\ Len(MemXfers) < fail_at => err # "TransportError"
        /\ Len(MemXfers) = fail_at =>
              /\ pc = "error"
              /\ err = "TransportError"
              /\ Len(prims) = fail_at
              /\ ~ENABLED Next
        /\ err = "TransportError" => Len(MemXfers) = fail_at
        /\ Tiles(MemXfers, arg_address)
        /\ MemXfers = [i \in 1..Len(MemXfers) |-> prims[i]]
        /\ \A i, j \in 1..Len(MemXfers) :
              i < j => MemXfers[i].address < MemXfers[j].address
        /\ op = "write_mem" => IsPrefix(Payloads(MemXfers), arg_data)

\* the third primitive of an unaligned write_mem failed: head and body stay written
C14_Witness ==
    /\ op = "write_mem"
    /\ fail_at = 3
    /\ pc = "error"
    /\ err = "TransportError"
    /\ ~Aligned(arg_address)
    /\ Len(MemXfers) = 3
    /\ MemXfers[1].name = "write_mem8"
    /\ MemXfers[2].name = "write_mem32"
    /\ MemXfers[2].size = MAXIMUM_32BIT_DATA

\* the messages of the exceptions a primitive raises from its argument tests
LimitErrors ==
    { "Too many Bytes to read", "Too many Bytes to write",
      "Address is not aligned to 4 Bytes", "Size is not aligned to 4 Bytes" }

\* request p, of a driver call or of a bulk command, is within its primitive's limits
WithinLimits(p) ==
    /\ p.name \in {"read_mem32", "write_mem32"} =>
          /\ p.address % 4 = 0
          /\ p.size % 4 = 0
          /\ p.size <= 1024
    /\ p.name \in {"read_mem8", "write_mem8"} => p.size <= 64
    /\ p.name \in {"write_mem8", "write_mem32"} => Len(p.data) = p.size

(***************************************************************************)
(* C15.  Every primitive issued by read_mem satisfies its own limits: a    *)
(* 32 bit read has address % 4 = 0, size % 4 = 0 and size <= 1024, an      *)
(* 8 bit read has size <= 64; so read_mem never ends in a primitive's      *)
(* alignment or size error, and every primitive issued reaches the wire.   *)
(***************************************************************************)
C15_ReadLimits ==
    op = "read_mem" =>
        /\ \A i \in 1..Len(prims) :
              /\ prims[i].name \in {"read_mem8", "read_mem32"}
              /\ WithinLimits(prims[i])
        /\ err \notin LimitErrors
        /\ pc # "error"
        /\ Len(MemXfers) = Len(prims)

\* read_mem(0x20000001, 1028), exhausted: 3 bytes 8 bit, 1024 bytes 32 bit, 1 byte 8 bit
C15_Witness ==
    /\ op = "read_mem"
    /\ pc = "done"
    /\ arg_address = BaseAddress + 1
    /\ arg_size = 1028
    /\ [i \in 1..Len(prims) |-> <<prims[i].name, prims[i].size>>]
         = << <<"read_mem8", 3>>, <<"read_mem32", 1024>>, <<"read_mem8", 1>> >>

(***************************************************************************)
(* C16.  Every primitive issued by fill_mem with a non-empty pattern       *)
(* carries the bytes of its planned chunk and satisfies its own limits: a  *)
(* 32 bit write has address % 4 = 0 and a byte count that is a multiple of *)
(* 4 and at most 1024, an 8 bit write has at most 64 bytes; so fill_mem    *)
(* never ends in a primitive's alignment or size error.                    *)
(***************************************************************************)
C16_FillLimits ==
    (op = "fill_mem" /\ arg_data # <<>>) =>
        /\ \A i \in 1..Len(prims) :
              /\ prims[i].name \in {"write_mem8", "write_mem32"}
              /\ WithinLimits(prims[i])
        /\ err \notin LimitErrors

(***************************************************************************)
(* C17.  In the plan of read_mem, write_mem or fill_mem an 8 bit primitive *)
(* is either the first primitive of a call whose start address is not a    *)
(* multiple of 4 (head), or the last primitive issued and of fewer than 4  *)
(* bytes (tail); every other primitive is 32 bit, so at most two           *)
(* primitives of a plan are 8 bit.                                         *)
(***************************************************************************)
C17_EightBitOnlyHeadAndTail ==
    op \in PlannerOps =>
        LET Eight == { i \in 1..Len(prims) : prims[i].name \in {"read_mem8", "write_mem8"} }
        IN /\ \A i \in Eight :
                 \/ i = 1 /\ arg_address % 4 # 0
                 \/ i = Len(prims) /\ prims[i].size < 4
           /\ \A i \in (1..Len(prims)) \ Eight :
                 prims[i].name \in {"read_mem32", "write_mem32"}
           /\ Cardinality(Eight) <= 2

\* fill_mem(0x20000003, pattern, 70) has returned: 1 byte 8 bit, 68 bytes 32 bit, 1 byte 8 bit
C17_Witness ==
    /\ op = "fill_mem"
    /\ pc = "done"
    /\ arg_address = BaseAddress + 3
    /\ arg_size = 70
    /\ [i \in 1..Len(prims) |-> <<prims[i].name, prims[i].size>>]
         = << <<"write_mem8", 1>>, <<"write_mem32", 68>>, <<"write_mem8", 1>> >>

\* the leave commands among the commands of the open, by position
LeaveCmds == { <<243, 7>>, <<242, 33>>, <<244, 1>> }
LeavesSent == { i \in 1..Len(xfers) : xfers[i].cmd \in LeaveCmds }

\* the enter-Debug/SWD commands among the commands sent, by position
EntersSent ==
    { i \in 1..Len(xfers) :
        Len(xfers[i].cmd) = 3 /\ xfers[i].cmd[1] = 242 /\ xfers[i].cmd[2] = 48 }

\* the set-frequency commands among the commands sent, by position
SetFreqsSent ==
    { i \in 1..Len(xfers) :
        Len(xfers[i].cmd) = 3 /\ xfers[i].cmd[1] = 242 /\ xfers[i].cmd[2] = 67 }

\* the frequency step of this open fails
FreqStepFails ==
    /\ ((ver_reply[1] * 256 + ver_reply[2]) \div 64) % 64 >= 22
    /\ (swd_frequency < 25000 \/ freq_reply[1] # 128)

(***************************************************************************)
(* C18.  After the mode query [0xF5], session open sends exactly one leave *)
(* command, chosen by the first byte of the reply: DFU (0x00) gives        *)
(* [0xF3,0x07], DEBUG (0x02) gives [0xF2,0x21], SWIM (0x03) gives          *)
(* [0xF4,0x01], sent right after the query; for any other byte, MASS       *)
(* (0x01) and BOOTLOADER (0x04) included, it sends none, and the open goes *)
(* on: it fails only where the frequency step fails, and otherwise ends    *)
(* with the enter-Debug/SWD command.                                       *)
(***************************************************************************)
C18_LeaveByMode ==
    LET m == mode_reply[1]
        expected == CASE m = 0 -> << <<243, 7>> >>
                      [] m = 2 -> << <<242, 33>> >>
                      [] m = 3 -> << <<244, 1>> >>
                      [] OTHER -> <<>>
    IN op = "none" =>
          /\ pc \in {"new", "leave"} => LeavesSent = {}
          /\ pc \notin {"new", "leave"} =>
                /\ xfers[2].cmd = <<245>>
                /\ IF expected = <<>>
                   THEN LeavesSent = {}
                   ELSE LeavesSent = {3} /\ xfers[3].cmd = expected[1]
          /\ pc = "error" => FreqStepFails
          /\ pc = "ready" => EntersSent = {Len(xfers)}

\* a probe found in BOOTLOADER mode: no leave command and the open has completed
C18_Witness ==
    /\ op = "none"
    /\ pc = "ready"
    /\ mode_reply[1] = 4
    /\ LeavesSent = {}
    /\ Len(xfers) = 4
    /\ xfers[4].cmd = <<242, 48, 163>>

(***************************************************************************)
(* C19.  When jtag >= 22 and the frequency step fails (requested_hz is     *)
(* below 25000, the lowest table entry, or the first byte of the reply to  *)
(* the set-frequency command is not 0x80), session open ends in an error   *)
(* at that step and sends nothing more: the enter-Debug/SWD command is     *)
(* never sent and the session never gets ready.  When no table entry       *)
(* qualifies, no set-frequency command is sent either; otherwise the       *)
(* refused set-frequency command is the last command sent.                 *)
(***************************************************************************)
C19_FrequencyFailureStopsOpen ==
    FreqStepFails =>
        /\ pc \in {"new", "leave", "freq", "error"}
        /\ op = "none"
        /\ EntersSent = {}
        /\ swd_frequency < 25000 => SetFreqsSent = {}
        /\ pc = "error" =>
              /\ ~ENABLED Next
              /\ IF swd_frequency < 25000
                 THEN err = "Selected SWD frequency is too low"
                 ELSE /\ err = "Error switching SWD frequency"
                      /\ SetFreqsSent = {Len(xfers)}
        /\ pc # "error" => (err = "none" /\ SetFreqsSent = {})

\* the probe answers the set-frequency command with 0x81: the open has failed
C19_Witness ==
    /\ pc = "error"
    /\ swd_frequency = 1800000
    /\ freq_reply[1] = 129
    /\ err = "Error switching SWD frequency"
    /\ xfers[Len(xfers)].cmd = <<242, 67, 1>>

(***************************************************************************)
(* C20.  read_mem issues its primitives on demand.  Nothing is issued, on  *)
(* the driver or on the wire, before the consumer's first next() call; the *)
(* primitive of a chunk is issued only once the consumer has asked for a   *)
(* byte beyond all bytes of the chunks before it; and a consumer that      *)
(* stops after n bytes has caused only the primitives of the chunks that   *)
(* hold those n bytes: the generator then makes no further step.           *)
(***************************************************************************)
C20_ReadOnDemand ==
    op = "read_mem" =>
        /\ asked <= want
        /\ asked = 0 => (prims = <<>> /\ xfers = DefaultOpenLog)
        /\ Len(MemXfers) = Len(prims)
        /\ \A i \in 1..Len(prims) : asked > SumSizes(SubSeq(prims, 1, i - 1))
        /\ (asked = want /\ want <= Len(out)) =>
              /\ pc \in {"read_head", "read_loop"}
              /\ ~ENABLED Next
              /\ want > 0 => want > SumSizes(SubSeq(prims, 1, Len(prims) - 1))

\* read_mem(0x20000000, 1027) abandoned after 1024 bytes: the 32 bit read of 1024
\* bytes has been issued, the 8 bit read of the last 3 bytes has not
C20_Witness ==
    /\ op = "read_mem"
    /\ arg_address = BaseAddress
    /\ arg_size = 1027
    /\ want = 1024
    /\ asked = 1024
    /\ Len(out) = 1024
    /\ [i \in 1..Len(prims) |-> <<prims[i].name, prims[i].size>>]
         = << <<"read_mem32", 1024>> >>

\* the bytes a planner call has still to handle: the local size of read_mem and
\* fill_mem, what is left in the data iterator of write_mem
Remaining == IF op = "write_mem" THEN Len(data) ELSE size

\* the bytes the call was asked to handle
Requested == IF op = "write_mem" THEN Len(arg_data) ELSE arg_size

\* a step of a running call that goes round the loop, or that issues primitives and
\* does not end in an error, handles at least one byte: exactly the bytes of the
\* primitives it issues
C21_Progress ==
    (op \in PlannerOps /\ op' = op /\ asked' = asked) =>
        /\ (pc' = pc /\ pc \in {"read_loop", "write_loop", "fill_loop"}) =>
              Remaining' < Remaining
        /\ (Len(prims') > Len(prims) /\ err' = "none") =>
              /\ Remaining' < Remaining
              /\ Remaining - Remaining'
                   = SumSizes(SubSeq(prims', Len(prims) + 1, Len(prims')))
        /\ Remaining' <= Remaining
        /\ Remaining' >= 0

\* a call never issues more primitives than it was asked to handle bytes
C21_Bounded ==
    op \in PlannerOps =>
        /\ Len(prims) <= Requested
        /\ Remaining >= 0
        /\ Remaining <= Requested
        /\ (pc = "done" /\ op # "write_mem") => Remaining = 0

C21_Running == op \in PlannerOps /\ (op = "read_mem" => want = arg_size + 1)

C21_Ended == pc \in {"done", "error"}

(***************************************************************************)
(* C21.  A fully consumed read_mem, a write_mem and a fill_mem with a      *)
(* non-empty pattern terminate after finitely many primitives: every trip  *)
(* round a loop and every step that issues primitives without an error     *)
(* handles at least one byte, so the remaining size strictly decreases and *)
(* never goes below 0; a call issues at most one primitive per byte; and   *)
(* the call ends, by returning or with an error (also that of a transport  *)
(* call that raises, and that of an empty pattern).                        *)
(***************************************************************************)
C21_Terminates ==
    /\ [][C21_Progress]_vars
    /\ []C21_Bounded
    /\ C21_Running ~> C21_Ended

\* fill_mem(0x20000001, [0xAA], 1028) has returned after three trips round its loop
C21_Witness ==
    /\ op = "fill_mem"
    /\ pc = "done"
    /\ fail_at = 0
    /\ arg_address = BaseAddress + 1
    /\ arg_data = <<170>>
    /\ arg_size = 1028
    /\ size = 0
    /\ [i \in 1..Len(prims) |-> <<prims[i].name, prims[i].size>>]
         = << <<"write_mem8", 3>>, <<"write_mem32", 1024>>, <<"write_mem8", 1>> >>

=============================================================================
